---- MODULE Spec2Model ----
(***************************************************************************)
(* A model of SpiffWorkflow/bpmn/PythonScriptEngine.py: the Box mapping    *)
(* wrapper and the PythonScriptEngine (evaluate, _evaluate, execute,       *)
(* convertToBox, check_for_overwrite).                                     *)
(*                                                                         *)
(* Python objects live in a heap (object id -> object) so that two names   *)
(* bound to one object observe each other's mutations, as in Python.       *)
(***************************************************************************)
EXTENDS Integers, Sequences, FiniteSets, TLC

VARIABLES
    heap,      \* Box objects: object id -> Box / dict object
    boxOps,    \* Box objects: number of operations applied so far
    boxRaised, \* Box objects: what the last operation raised ("" when it returned)
    globals,   \* PythonScriptEngine.globals: name -> value
    data,      \* the task's data: name -> value
    calls,     \* number of engine calls made so far
    result,    \* what the last engine call did and returned or raised
    built,     \* the scope the last engine call built
    script     \* the text of the script of the last execute call

boxVars == <<heap, boxOps, boxRaised>>
engineVars == <<globals, data, calls, result, built, script>>
vars == <<heap, boxOps, boxRaised, globals, data, calls, result, built, script>>

(***************************************************************************)
(* Bounds                                                                  *)
(***************************************************************************)
MaxObj == 3
MaxBoxOps == 3

(***************************************************************************)
(* Values: an atom (int, function, type ...) or a reference to a heap      *)
(* object.                                                                 *)
(***************************************************************************)
Atom(n) == [ref |-> FALSE, n |-> n]
Ref(i) == [ref |-> TRUE, n |-> i]

EmptyMap == [k \in {} |-> Atom(0)]

MapSet(m, k, v) == [x \in DOMAIN m \cup {k} |-> IF x = k THEN v ELSE m[x]]
MapDel(m, k) == [x \in DOMAIN m \ {k} |-> m[x]]

ObjIds == 1..MaxObj
FreeObj == [kind |-> "free", items |-> EmptyMap, attrs |-> EmptyMap]

NewId(h) == CHOOSE i \in DOMAIN h : h[i].kind = "free" /\ \A j \in DOMAIN h : h[j].kind = "free" => i <= j
Room(h) == Cardinality({i \in DOMAIN h : h[i].kind = "free"})

(***************************************************************************)
(* Literals a caller can write: an int, or a dict display of literals.     *)
(***************************************************************************)
IntLit(n) == [t |-> "int", n |-> n, m |-> EmptyMap]
DictLit(m) == [t |-> "dict", n |-> 0, m |-> m]

\* Names used as keys.  "__class__" is a data descriptor of every type and
\* "keys" a method of dict; "a" and "b" are ordinary names.
BoxKeys == {"a", "b", "keys", "__class__"}
DataDescriptors == {"__class__", "__dict__"}
ClassAttrs == {"keys", "items", "update"}
TypeAttrs == DataDescriptors \cup ClassAttrs
BoxType == Atom(-1)
BoundMethod(b) == Atom(-10 - b)

FlatLits == {DictLit(EmptyMap)} \cup {DictLit([x \in {k} |-> IntLit(1)]) : k \in BoxKeys}
ArgLits ==
    FlatLits
    \cup {DictLit([x \in {k} |-> v]) :
            k \in {"a", "keys"},
            v \in {IntLit(2), DictLit(EmptyMap), DictLit([x \in {"b"} |-> IntLit(1)])}}
    \cup {DictLit([x \in {"a", k} |-> IF x = "a" THEN DictLit(EmptyMap) ELSE IntLit(1)]) : k \in BoxKeys \ {"a"}}

\* The number of dict displays in a literal: the objects building it allocates.
RECURSIVE Size(_)
Size(lit) ==
    IF lit.t = "int" THEN 0
    ELSE LET RECURSIVE Sum(_)
             Sum(S) == IF S = {} THEN 0
                       ELSE LET k == CHOOSE x \in S : TRUE IN Size(lit.m[k]) + Sum(S \ {k})
         IN 1 + Sum(DOMAIN lit.m)

(***************************************************************************)
(* Box                                                                     *)
(***************************************************************************)

\* dict item assignment without Box's override (super().__setitem__).
dict_setitem(h, b, k, v) == [h EXCEPT ![b].items = MapSet(@, k, v)]

\* Box.__setitem__: the item store, then self.__dict__.update({key: value}).
Box_setitem(h, b, k, v) ==
    [h EXCEPT ![b].items = MapSet(@, k, v), ![b].attrs = MapSet(@, k, v)]

\* Box.__setattr__ delegates to __setitem__ (for every name: a class's
\* __setattr__ takes precedence over descriptors and the instance dict).
Box_setattr(h, b, k, v) == Box_setitem(h, b, k, v)

\* Mutation of Box.__delitem__: the attribute store keeps the key.
Box_delitem_noMirror(h, b, k) ==
    IF k \notin DOMAIN h[b].items THEN [heap |-> h, raised |-> "KeyError"]
    ELSE [heap |-> [h EXCEPT ![b].items = MapDel(@, k)], raised |-> ""]

\* Box.__delitem__: super().__delitem__(key) raises KeyError on a missing
\* key; then del self.__dict__[key], which raises KeyError when the
\* attribute store lacks the key (the item is already gone by then).
Box_delitem(h, b, k) ==
    IF k \notin DOMAIN h[b].items THEN [heap |-> h, raised |-> "KeyError"]
    ELSE LET h1 == [h EXCEPT ![b].items = MapDel(@, k)]
         IN IF k \notin DOMAIN h[b].attrs THEN [heap |-> h1, raised |-> "KeyError"]
            ELSE [heap |-> [h1 EXCEPT ![b].attrs = MapDel(@, k)], raised |-> ""]

Box_delattr(h, b, k) == Box_delitem(h, b, k)

Found(v) == [ok |-> TRUE, v |-> v]
Missing == [ok |-> FALSE, v |-> Atom(0)]

\* box[k]
Box_getitem(h, b, k) ==
    IF k \in DOMAIN h[b].items THEN Found(h[b].items[k]) ELSE Missing

\* Box.__getattr__: called only when the normal lookup fails.
Box_getattr(h, b, k) == Box_getitem(h, b, k)

\* box.k: a data descriptor of the type, then the instance __dict__, then any
\* other attribute of the type, and only then Box.__getattr__.
GetAttr(h, b, k) ==
    IF k \in DataDescriptors THEN Found(BoxType)
    ELSE IF k \in DOMAIN h[b].attrs THEN Found(h[b].attrs[k])
    ELSE IF k \in ClassAttrs THEN Found(BoundMethod(b))
    ELSE Box_getattr(h, b, k)

\* Allocates the objects of a literal.  wrap = TRUE: Box(lit), every nested
\* dict display becoming a Box through __setitem__ (items and attributes
\* both set); wrap = FALSE: plain dicts.  Returns the heap and the value.
RECURSIVE Build(_, _, _)
Build(h, lit, wrap) ==
    IF lit.t = "int" THEN [heap |-> h, v |-> Atom(lit.n)]
    ELSE
        LET b == NewId(h)
            h0 == [h EXCEPT ![b] = [kind |-> IF wrap THEN "Box" ELSE "dict",
                                    items |-> EmptyMap, attrs |-> EmptyMap]]
            RECURSIVE Fill(_, _)
            Fill(hh, S) ==
                IF S = {} THEN hh
                ELSE LET k == CHOOSE x \in S : TRUE
                         r == Build(hh, lit.m[k], wrap)
                     IN Fill(IF wrap THEN Box_setitem(r.heap, b, k, r.v)
                                     ELSE dict_setitem(r.heap, b, k, r.v), S \ {k})
        IN [heap |-> Fill(h0, DOMAIN lit.m), v |-> Ref(b)]

\* Box.__init__(arg) with a dict argument (or keyword arguments).
Box_init(h, lit) == Build(h, lit, TRUE)

\* Box.__init__(arg) with an iterable of pairs: only dict.__init__ stores
\* the entries; the isinstance(arg, dict) loop is skipped.
Box_init_pairs(h, lit) ==
    LET r == Build(h, lit, FALSE)
    IN [heap |-> [r.heap EXCEPT ![r.v.n].kind = "Box"], v |-> r.v]

Boxes(h) == {i \in DOMAIN h : h[i].kind = "Box"}

\* Values a caller can store into a Box.
StoreLits == {IntLit(1), IntLit(2), DictLit([x \in {"a"} |-> IntLit(1)])}

BoxInitial == [i \in ObjIds |-> FreeObj]

(***************************************************************************)
(* Engine values.  Task data is a tree of ints, functions, dicts, Boxes    *)
(* and lists.  The statements modelled below never bind two names to one   *)
(* mutable object and only read names bound to immutable values, so a      *)
(* mapping name -> tree is exact for them.                                 *)
(***************************************************************************)
IntV(n) == [t |-> "int", n |-> n, m |-> EmptyMap, s |-> <<>>]
Fn(n) == [t |-> "fn", n |-> n, m |-> EmptyMap, s |-> <<>>]
Bool(n) == [t |-> "bool", n |-> n, m |-> EmptyMap, s |-> <<>>]
Dict(m) == [t |-> "dict", n |-> 0, m |-> m, s |-> <<>>]
BoxT(m) == [t |-> "Box", n |-> 0, m |-> m, s |-> <<>>]
List(s) == [t |-> "list", n |-> 0, m |-> EmptyMap, s |-> s]
None == [t |-> "None", n |-> 0, m |-> EmptyMap, s |-> <<>>]

\* isinstance(v, dict): Box is a subclass of dict.
isdict(v) == v.t \in {"dict", "Box"}
isBox(v) == v.t = "Box"

\* dict.update
Update(a, b) == [k \in DOMAIN a \cup DOMAIN b |-> IF k \in DOMAIN b THEN b[k] ELSE a[k]]

\* Box(m) for a dict m: every dict value (a Box included) is replaced by a
\* Box of it; any other value, a list included, is stored as it is.
RECURSIVE Box(_)
Box(m) == BoxT([k \in DOMAIN m |-> IF isdict(m[k]) THEN Box(m[k].m) ELSE m[k]])

\* PythonScriptEngine.convertToBoxSub
RECURSIVE convertToBoxSub(_)
convertToBoxSub(d) ==
    IF d.t = "list" THEN List([i \in 1..Len(d.s) |-> convertToBoxSub(d.s[i])])
    ELSE IF isdict(d)
        THEN Box([k \in DOMAIN d.m |-> IF isdict(d.m[k]) THEN convertToBoxSub(d.m[k]) ELSE d.m[k]])
    ELSE d

\* Mutation of convertToBox: nothing is converted.
convertToBox_skipped(d) == d

\* PythonScriptEngine.convertToBox
convertToBox(d) == [k \in DOMAIN d |-> convertToBoxSub(d[k])]

\* Mutation of check_for_overwrite: the extensions are not looked at.
check_for_overwrite_engineOnly(my_globals, more_methods, d) ==
    DOMAIN my_globals \cap DOMAIN d

\* Mutation of check_for_overwrite: nothing is reported.
check_for_overwrite_never(my_globals, more_methods, d) == {}

\* PythonScriptEngine.check_for_overwrite: the names it reports (it raises
\* when there is one).
check_for_overwrite(my_globals, more_methods, d) ==
    (DOMAIN my_globals \cap DOMAIN d) \cup (DOMAIN more_methods \cap DOMAIN d)

\* Mutation: the working scope is self.globals itself, not a copy of it.
globals_after_alias(g, working) == working

\* self.globals after a call that ended with the working scope `working`:
\* the working scope is copy.copy(self.globals), so what the call puts into
\* it stays out of self.globals.
globals_after(g, working) == g

(***************************************************************************)
(* Lines of code: the statements of a script, and expressions.             *)
(***************************************************************************)
Line(op, name, field, lit, nested, exc, deep, dline) ==
    [op |-> op, name |-> name, field |-> field, lit |-> lit, nested |-> nested,
     exc |-> exc, deep |-> deep, dline |-> dline]

NoLine == Line("", "", "", None, FALSE, "", "", 0)
\* name = lit
AssignS(n, lit) == Line("assign", n, "", lit, FALSE, "", "", 0)
\* name.field = lit
SetAttrS(n, f, lit) == Line("setattr", n, f, lit, FALSE, "", "", 0)
\* del name
DelS(n) == Line("del", n, "", None, FALSE, "", "", 0)
\* name, or (lambda: name)()
ReadS(n, nested) == Line("read", n, "", None, nested, "", "", 0)
\* Code that raises: exc is "WTE" (a WorkflowTaskExecException), "noarg",
\* "str" or "nonstr" (an exception with no argument, a string or an int as
\* its first argument).  deep says where below the line it is raised: ""
\* (the line itself), "lib" (library code the line calls) or "nested" (a
\* string the line hands to eval or exec, at line dline of that string).
RaiseS(exc, deep, dline) == Line("raise", "", "", None, FALSE, exc, deep, dline)
\* text that does not parse
Malformed == Line("malformed", "", "", None, FALSE, "", "", 0)
\* 1 + 1
Const == Line("const", "", "", IntV(2), FALSE, "", "", 0)
\* an Operator object whose _matches returns True or raises
OperatorE(exc) == Line("operator", "", "", None, FALSE, exc, "", 0)

(***************************************************************************)
(* Exceptions                                                              *)
(***************************************************************************)
StrArg(s) == [str |-> TRUE, s |-> s, n |-> 0]
IntArg(n) == [str |-> FALSE, s |-> "", n |-> n]

Frame(filename, lineno, code) == [filename |-> filename, lineno |-> lineno, code |-> code]
\* the frame of execute itself, at its call of exec
EngineFrame == Frame("PythonScriptEngine.py", 183, "engine")

WTEName == "WorkflowTaskExecException"

Exc(cls, args, frames) ==
    [cls |-> cls, args |-> args, frames |-> frames, detail |-> <<>>, names |-> {},
     line |-> 0, text |-> NoLine, cause |-> <<>>]

\* WorkflowTaskExecException(task, error_msg, exception, line_number, error_line)
WorkflowTaskExecException(detail, names, cause, line, text) ==
    [cls |-> WTEName, args |-> <<>>, frames |-> <<>>, detail |-> detail, names |-> names,
     line |-> line, text |-> text, cause |-> cause]

\* a WorkflowTaskExecException raised by code that the call runs
InnerWTE == WorkflowTaskExecException(<<"inner">>, {}, <<>>, 0, NoLine)

\* str(e)
Str(e) ==
    IF e.cls = WTEName THEN (IF e.detail = <<>> THEN "" ELSE e.detail[1])
    ELSE IF e.args = <<>> THEN ""
    ELSE IF e.args[1].str THEN e.args[1].s
    ELSE "5"

\* The exception a raising line produces at line i of the text it is in.
Raised(ln, frames) ==
    LET deeper == IF ln.deep = "lib" THEN <<Frame("lib.py", ln.dline, "lib")>>
                  ELSE IF ln.deep = "nested" THEN <<Frame("<string>", ln.dline, "nested")>>
                  ELSE <<>>
    IN IF ln.exc = "WTE" THEN InnerWTE
       ELSE IF ln.exc = "noarg" THEN Exc("ValueError", <<>>, frames \o deeper)
       ELSE IF ln.exc = "str" THEN Exc("ValueError", <<StrArg("msg")>>, frames \o deeper)
       ELSE Exc("ValueError", <<IntArg(5)>>, frames \o deeper)

(***************************************************************************)
(* eval and exec                                                           *)
(***************************************************************************)
\* Name lookup.  At the top level of the code: the locals, then the globals.
\* Inside a nested scope (a lambda, a comprehension): the globals only.
Lookup(lcls, glbs, name, nested) ==
    IF ~nested /\ name \in DOMAIN lcls THEN <<lcls[name]>>
    ELSE IF name \in DOMAIN glbs THEN <<glbs[name]>>
    ELSE <<>>

\* eval(expression, globals, lcls): [exc, value]
eval(e, glbs, lcls) ==
    IF e.op = "malformed"
        THEN [exc |-> <<Exc("SyntaxError", <<StrArg("invalid syntax")>>, <<>>)>>, value |-> None]
    ELSE IF e.op = "const" THEN [exc |-> <<>>, value |-> e.lit]
    ELSE IF e.op = "read"
        THEN LET v == Lookup(lcls, glbs, e.name, e.nested)
             IN IF v = <<>>
                    THEN [exc |-> <<Exc("NameError", <<StrArg("name is not defined")>>, <<>>)>>,
                          value |-> None]
                    ELSE [exc |-> <<>>, value |-> v[1]]
    ELSE [exc |-> <<Raised(e, <<>>)>>, value |-> None]

\* One statement, at line i of the script, on the running state
\* [lcls, glbs, exc, ran, bound, reads].
Step(st, ln, i) ==
    LET here == <<EngineFrame, Frame("<string>", i, "script")>>
        fail(e) == [st EXCEPT !.exc = <<e>>, !.ran = @ + 1]
        done(s) == [s EXCEPT !.ran = @ + 1]
    IN
    IF ln.op = "assign"
        THEN done([st EXCEPT !.lcls = MapSet(@, ln.name, ln.lit), !.bound = @ \cup {ln.name}])
    ELSE IF ln.op = "del"
        THEN IF ln.name \in DOMAIN st.lcls
                THEN done([st EXCEPT !.lcls = MapDel(@, ln.name), !.bound = @ \ {ln.name}])
                ELSE fail(Exc("NameError", <<StrArg("name is not defined")>>, here))
    ELSE IF ln.op = "read"
        THEN LET v == Lookup(st.lcls, st.glbs, ln.name, ln.nested)
             IN IF v = <<>>
                    THEN fail(Exc("NameError", <<StrArg("name is not defined")>>, here))
                    ELSE done([st EXCEPT !.reads = Append(@, v[1])])
    ELSE IF ln.op = "setattr"
        THEN LET v == Lookup(st.lcls, st.glbs, ln.name, FALSE)
             IN IF v = <<>>
                    THEN fail(Exc("NameError", <<StrArg("name is not defined")>>, here))
                ELSE IF ~isBox(v[1])
                    THEN fail(Exc("AttributeError", <<StrArg("object has no attribute")>>, here))
                ELSE LET w == BoxT(MapSet(v[1].m, ln.field, ln.lit))
                     IN IF ln.name \in DOMAIN st.lcls
                            THEN done([st EXCEPT !.lcls = MapSet(@, ln.name, w)])
                            ELSE done([st EXCEPT !.glbs = MapSet(@, ln.name, w)])
    ELSE fail(Raised(ln, here))

RECURSIVE RunFrom(_, _, _)
RunFrom(st, lines, i) ==
    IF i > Len(lines) \/ st.exc # <<>> THEN st
    ELSE RunFrom(Step(st, lines[i], i), lines, i + 1)

\* exec(script, my_globals, data): the text is compiled as a whole, so no
\* statement runs when a line does not parse; the statements then run in
\* order up to the first that raises.  Assignments go to the locals (data).
exec(lines, glbs, lcls) ==
    LET st0 == [lcls |-> lcls, glbs |-> glbs, exc |-> <<>>, ran |-> 0, bound |-> {}, reads |-> <<>>]
    IN IF \E i \in 1..Len(lines) : lines[i].op = "malformed"
           THEN [st0 EXCEPT !.exc = <<Exc("SyntaxError", <<StrArg("invalid syntax")>>, <<EngineFrame>>)>>]
           ELSE RunFrom(st0, lines, 1)

(***************************************************************************)
(* PythonScriptEngine                                                      *)
(***************************************************************************)
\* the functions and types the engine and the extensions bind
EngineBox == Fn(101)
EngineF == Fn(102)
ExtensionF == Fn(103)

\* PythonScriptEngine.__init__(scripting_additions)
PythonScriptEngine_init(scripting_additions) ==
    Update([k \in {"timedelta", "datetime", "dateparser", "pytz", "Box"} |->
                IF k = "Box" THEN EngineBox ELSE Fn(0)],
           scripting_additions)

\* PythonScriptEngine._evaluate: [exc, value, globals, built]
_evaluate(g, expression, context, external_methods) ==
    LET lcls == [x \in DOMAIN context |->
                    IF isBox(context[x]) THEN context[x]
                    ELSE IF isdict(context[x]) THEN Box(context[x].m)
                    ELSE context[x]]
        glbs == Update(Update(g, lcls), external_methods)
        r == eval(expression, glbs, lcls)
    IN [exc |-> r.exc, value |-> r.value, globals |-> globals_after(g, glbs),
        built |-> [glbs |-> glbs, lcls |-> lcls]]

\* PythonScriptEngine.evaluate: [exc, inner, value, globals, built]
evaluate(g, d, expression) ==
    LET wrap(e) == WorkflowTaskExecException(
                       <<"Error evaluating expression", Str(e)>>, {}, <<>>, 0, NoLine)
    IN IF expression.op = "operator"
           THEN LET inner == IF expression.exc = "" THEN <<>> ELSE <<Raised(expression, <<>>)>>
                IN [exc |-> IF inner = <<>> THEN <<>> ELSE <<wrap(inner[1])>>,
                    inner |-> inner,
                    value |-> IF inner = <<>> THEN Bool(1) ELSE None,
                    globals |-> g, built |-> [glbs |-> EmptyMap, lcls |-> EmptyMap]]
           ELSE LET r == _evaluate(g, expression, d, EmptyMap)
                IN [exc |-> IF r.exc = <<>> THEN <<>> ELSE <<wrap(r.exc[1])>>,
                    inner |-> r.exc, value |-> r.value, globals |-> r.globals, built |-> r.built]

\* The handler of `except Exception as err` in execute: the detail, then the
\* loop over traceback.extract_tb(tb), then the exception it raises: the
\* WorkflowTaskExecException, or what the handler's own code raises.
RECURSIVE ScanFrames(_, _, _, _, _)
ScanFrames(frames, i, lines, line_number, error_line) ==
    IF i > Len(frames) THEN [ok |-> TRUE, line |-> line_number, text |-> error_line]
    ELSE IF frames[i].filename = "<string>"
        THEN IF frames[i].lineno > Len(lines)
                THEN [ok |-> FALSE, line |-> frames[i].lineno, text |-> NoLine]
                ELSE ScanFrames(frames, i + 1, lines, frames[i].lineno, lines[frames[i].lineno])
    ELSE ScanFrames(frames, i + 1, lines, line_number, error_line)

locate(err, lines) ==
    IF err.args # <<>> /\ ~err.args[1].str
        THEN Exc("TypeError", <<StrArg("can only concatenate str")>>, <<>>)
    ELSE LET detail == IF err.args # <<>> THEN <<err.cls, ":", err.args[1].s>> ELSE <<err.cls>>
             at == ScanFrames(err.frames, 1, lines, 0, NoLine)
         IN IF ~at.ok THEN Exc("IndexError", <<StrArg("list index out of range")>>, <<>>)
            ELSE WorkflowTaskExecException(detail, {}, <<err>>, at.line, at.text)

\* execute's except clauses with the first one left out
execute_except_noPassThrough(err, lines) == locate(err, lines)

\* execute's except clauses: `except WorkflowTaskExecException as wte:
\* raise wte`, then `except Exception as err`
execute_except(err, lines) ==
    IF err.cls = WTEName THEN err ELSE locate(err, lines)

\* PythonScriptEngine.execute: [data, globals, exc, inner, ran, bound, reads, built]
execute(g, d, lines, external_methods) ==
    LET my_globals == g
        func_overwrites == check_for_overwrite(my_globals, external_methods, d)
    IN IF func_overwrites # {}
        THEN [data |-> d, globals |-> globals_after(g, my_globals),
              exc |-> <<WorkflowTaskExecException(
                          <<"You have task data that overwrites a predefined function(s)">>,
                          func_overwrites, <<>>, 0, NoLine)>>,
              inner |-> <<>>, ran |-> 0, bound |-> {}, reads |-> <<>>,
              built |-> [glbs |-> EmptyMap, lcls |-> EmptyMap]]
        ELSE LET boxed == convertToBox(d)
                 glbs == Update(Update(my_globals, boxed), external_methods)
                 st == exec(lines, glbs, boxed)
             IN [data |-> st.lcls, globals |-> globals_after(g, st.glbs),
                 exc |-> IF st.exc = <<>> THEN <<>> ELSE <<execute_except(st.exc[1], lines)>>,
                 inner |-> st.exc, ran |-> st.ran, bound |-> st.bound, reads |-> st.reads,
                 built |-> [glbs |-> glbs, lcls |-> boxed]]

(***************************************************************************)
(* Inputs                                                                  *)
(***************************************************************************)
MaxCalls == 2
MaxScriptLen == 2

SeqsUpTo(S, n) == UNION {[1..k -> S] : k \in 0..n}

\* scripting_additions given to the constructor
Additions == {EmptyMap, [k \in {"f"} |-> EngineF]}
\* external_methods given to a call
Exts == {EmptyMap, [k \in {"f"} |-> ExtensionF]}

\* task data before the first call
InitData ==
    {EmptyMap,
     [k \in {"x"} |-> IntV(1)],
     [k \in {"x"} |-> Dict(EmptyMap)],
     [k \in {"x"} |-> Dict([j \in {"m"} |-> Dict(EmptyMap)])],
     [k \in {"x"} |-> List(<<Dict(EmptyMap)>>)],
     [k \in {"x"} |-> Dict([j \in {"l"} |-> List(<<Dict(EmptyMap)>>)])],
     [k \in {"f"} |-> IntV(1)],
     [k \in {"Box"} |-> IntV(1)],
     [k \in {"f", "Box"} |-> IntV(1)],
     [k \in {"f", "x"} |-> IF k = "f" THEN IntV(1) ELSE Dict(EmptyMap)]}

\* z = {};  f = 5;  x.y = 5;  x.w = {};  del f
Statements ==
    {AssignS("z", Dict(EmptyMap)), AssignS("f", IntV(5)),
     SetAttrS("x", "y", IntV(5)), SetAttrS("x", "w", Dict(EmptyMap)), DelS("f")}
Scripts == SeqsUpTo(Statements, MaxScriptLen)

\* f = 5;  f;  (lambda: f)();  del f
ReadingStatements == {AssignS("f", IntV(5)), ReadS("f", FALSE), ReadS("f", TRUE), DelS("f")}
ReadingScripts == SeqsUpTo(ReadingStatements, MaxScriptLen)

RaisingStatements ==
    {AssignS("z", IntV(1)), Malformed,
     RaiseS("WTE", "", 0), RaiseS("noarg", "", 0), RaiseS("str", "", 0), RaiseS("nonstr", "", 0)}
    \cup {RaiseS("str", "lib", 1)}
    \cup {RaiseS("str", "nested", n) : n \in 1..(MaxScriptLen + 1)}
RaisingScripts == SeqsUpTo(RaisingStatements, MaxScriptLen)

\* z = 1;  raise WorkflowTaskExecException(...);  raise ValueError("msg")
PassingStatements == {AssignS("z", IntV(1)), RaiseS("WTE", "", 0), RaiseS("str", "", 0)}
PassingScripts == SeqsUpTo(PassingStatements, MaxScriptLen)

TextExpressions ==
    {Const, ReadS("f", FALSE), ReadS("f", TRUE), RaiseS("str", "", 0), RaiseS("WTE", "", 0),
     Malformed}
Expressions == TextExpressions \cup {OperatorE(""), OperatorE("WTE"), OperatorE("str")}

(***************************************************************************)
(* Calls                                                                   *)
(***************************************************************************)
Idle ==
    [op |-> "none", ok |-> TRUE, value |-> None, exc |-> <<>>, inner |-> <<>>,
     ext |-> EmptyMap, ran |-> 0, bound |-> {}, reads |-> <<>>, expr |-> NoLine]
NoScope == [glbs |-> EmptyMap, lcls |-> EmptyMap]

\* engine.evaluate(task, expression)
Evaluate ==
    /\ calls < MaxCalls
    /\ \E e \in Expressions :
        \E r \in {evaluate(globals, data, e)} :
           /\ globals' = r.globals
           /\ built' = r.built
           /\ result' = [Idle EXCEPT !.op = "evaluate", !.ok = (r.exc = <<>>), !.value = r.value,
                                     !.exc = r.exc, !.inner = r.inner, !.expr = e]
    /\ calls' = calls + 1
    /\ script' = <<>>
    /\ UNCHANGED <<data, heap, boxOps, boxRaised>>

\* engine._evaluate(expression, task.data, external_methods=...)
EvaluateInternal ==
    /\ calls < MaxCalls
    /\ \E e \in TextExpressions, X \in Exts :
        \E r \in {_evaluate(globals, e, data, X)} :
           /\ globals' = r.globals
           /\ built' = r.built
           /\ result' = [Idle EXCEPT !.op = "_evaluate", !.ok = (r.exc = <<>>), !.value = r.value,
                                     !.exc = r.exc, !.inner = r.exc, !.expr = e, !.ext = X]
    /\ calls' = calls + 1
    /\ script' = <<>>
    /\ UNCHANGED <<data, heap, boxOps, boxRaised>>

\* engine.execute(task, script, task.data, external_methods)
ExecuteOneOf(scripts, keepText) ==
    /\ calls < MaxCalls
    /\ \E lines \in scripts, X \in Exts :
        \E r \in {execute(globals, data, lines, X)} :
           /\ globals' = r.globals
           /\ data' = r.data
           /\ built' = r.built
           /\ result' = [Idle EXCEPT !.op = "execute", !.ok = (r.exc = <<>>), !.exc = r.exc,
                                     !.inner = r.inner, !.ext = X, !.ran = r.ran,
                                     !.bound = r.bound, !.reads = r.reads]
           /\ script' = IF keepText THEN lines ELSE <<>>
    /\ calls' = calls + 1
    /\ UNCHANGED <<heap, boxOps, boxRaised>>

Execute == ExecuteOneOf(Scripts, FALSE)

ExecuteRaising == ExecuteOneOf(RaisingScripts, TRUE)

ExecuteReading == ExecuteOneOf(ReadingScripts, TRUE)

ExecutePassing == ExecuteOneOf(PassingScripts, TRUE)

EngineIdle ==
    /\ calls = 0
    /\ result = Idle
    /\ built = NoScope
    /\ script = <<>>

Init ==
    /\ globals \in {PythonScriptEngine_init(a) : a \in Additions}
    /\ data \in InitData
    /\ EngineIdle
    /\ heap = BoxInitial
    /\ boxOps = 0
    /\ boxRaised = ""

Next == Evaluate \/ EvaluateInternal \/ Execute

Spec == Init /\ [][Next]_vars

NextErr == Evaluate \/ ExecuteRaising

SpecErr == Init /\ [][NextErr]_vars

NextScope == EvaluateInternal \/ ExecuteReading

SpecScope == Init /\ [][NextScope]_vars

NextPass == Evaluate \/ ExecutePassing

SpecPass == Init /\ [][NextPass]_vars

(***************************************************************************)
(* Operations on Box objects                                               *)
(***************************************************************************)
\* Box(lit) or Box(**lit)
Construct ==
    /\ boxOps < MaxBoxOps
    /\ \E lit \in ArgLits :
        /\ Size(lit) <= Room(heap)
        /\ heap' = Box_init(heap, lit).heap
    /\ boxOps' = boxOps + 1
    /\ boxRaised' = ""
    /\ UNCHANGED engineVars

\* Box(pairs)
ConstructPairs ==
    /\ boxOps < MaxBoxOps
    /\ \E lit \in ArgLits :
        /\ Size(lit) <= Room(heap)
        /\ heap' = Box_init_pairs(heap, lit).heap
    /\ boxOps' = boxOps + 1
    /\ boxRaised' = ""
    /\ UNCHANGED engineVars

\* box[k] = v, with v an int, a plain dict or a Box
SetItem ==
    /\ boxOps < MaxBoxOps
    /\ \E b \in Boxes(heap), k \in BoxKeys, lit \in StoreLits, wrap \in BOOLEAN :
        /\ Size(lit) <= Room(heap)
        /\ \E r \in {Build(heap, lit, wrap)} : heap' = Box_setitem(r.heap, b, k, r.v)
    /\ boxOps' = boxOps + 1
    /\ boxRaised' = ""
    /\ UNCHANGED engineVars

\* box.k = v
SetAttr ==
    /\ boxOps < MaxBoxOps
    /\ \E b \in Boxes(heap), k \in BoxKeys, lit \in StoreLits, wrap \in BOOLEAN :
        /\ Size(lit) <= Room(heap)
        /\ \E r \in {Build(heap, lit, wrap)} : heap' = Box_setattr(r.heap, b, k, r.v)
    /\ boxOps' = boxOps + 1
    /\ boxRaised' = ""
    /\ UNCHANGED engineVars

\* del box[k]
DelItem ==
    /\ boxOps < MaxBoxOps
    /\ \E b \in Boxes(heap), k \in BoxKeys :
        \E r \in {Box_delitem(heap, b, k)} : heap' = r.heap /\ boxRaised' = r.raised
    /\ boxOps' = boxOps + 1
    /\ UNCHANGED engineVars

\* del box.k
DelAttr ==
    /\ boxOps < MaxBoxOps
    /\ \E b \in Boxes(heap), k \in BoxKeys :
        \E r \in {Box_delattr(heap, b, k)} : heap' = r.heap /\ boxRaised' = r.raised
    /\ boxOps' = boxOps + 1
    /\ UNCHANGED engineVars

BoxInitState ==
    /\ heap = BoxInitial
    /\ boxOps = 0
    /\ boxRaised = ""
    /\ globals = PythonScriptEngine_init(EmptyMap)
    /\ data = EmptyMap
    /\ EngineIdle

BoxNext == Construct \/ ConstructPairs \/ SetItem \/ SetAttr \/ DelItem \/ DelAttr

SpecBox == BoxInitState /\ [][BoxNext]_vars

Executed(r) == r.op = "execute"
Succeeded(r) == r.op = "execute" /\ r.ok
\* the call raised the error of check_for_overwrite
Shadowing(r) ==
    /\ r.op = "execute"
    /\ ~r.ok
    /\ r.exc[1].cls = WTEName
    /\ r.exc[1].detail = <<"You have task data that overwrites a predefined function(s)">>
\* the names bound by the engine or by the extensions of the call
Predefined(g, r) == DOMAIN g \cup DOMAIN r.ext

\* C1: execute raises the name-shadowing error exactly when a key of the
\* data is a key of the engine bindings or of the extensions; the error then
\* names every such key, no statement of the script has run and the data is
\* as it was.
C1_OverwriteGuard ==
    [][Executed(result') =>
        LET colliding == DOMAIN data \cap Predefined(globals, result')
        IN /\ Shadowing(result') <=> colliding # {}
           /\ colliding # {} =>
                /\ result'.exc[1].names = colliding
                /\ result'.ran = 0
                /\ data' = data]_vars

\* The guard has refused data that collides with the engine bindings in one
\* name and with the extensions in another.
C1_Witness ==
    /\ Shadowing(result)
    /\ result.exc[1].names = {"Box", "f"}
    /\ "f" \notin DOMAIN globals
    /\ "f" \in DOMAIN result.ext
    /\ result.ran = 0

\* C6 (as stated): after every successful execute, every mapping-valued
\* entry of data is a Box.
C6_EveryEntryBoxed ==
    Succeeded(result) => \A k \in DOMAIN data : isdict(data[k]) => isBox(data[k])

\* C6 (amended): after every successful execute, every mapping-valued entry
\* of data that the script did not itself bind is a Box.
C6_UnboundEntriesBoxed ==
    Succeeded(result) =>
        \A k \in DOMAIN data \ result.bound : isdict(data[k]) => isBox(data[k])

\* data = {"x": {}} and script "x.y = 5": data["x"] is a Box holding y = 5,
\* beside an entry the script bound to a plain mapping.
C6_Witness ==
    /\ Succeeded(result)
    /\ "x" \in DOMAIN data
    /\ data["x"] = BoxT([k \in {"y"} |-> IntV(5)])
    /\ "z" \in DOMAIN data
    /\ data["z"] = Dict(EmptyMap)

\* C7: no call changes self.globals.
C7_GlobalsUnchanged == [][globals' = globals]_vars

\* Two calls have been made, the last an execute with extensions whose
\* script bound a name of its own, after data had entries of its own.
C7_Witness ==
    /\ calls = MaxCalls
    /\ Succeeded(result)
    /\ "f" \in DOMAIN result.ext
    /\ "z" \in result.bound
    /\ "x" \in DOMAIN data
    /\ "f" \notin DOMAIN globals
    /\ "z" \notin DOMAIN globals

\* no plain mapping at any depth under a value
RECURSIVE AllBoxed(_)
AllBoxed(v) ==
    /\ v.t # "dict"
    /\ \A k \in DOMAIN v.m : AllBoxed(v.m[k])
    /\ \A i \in 1..Len(v.s) : AllBoxed(v.s[i])

\* C8: in the scope built for evaluate and for execute, every mapping at any
\* depth under a key of the task data is a Box.
C8_ScopeFullyBoxed ==
    result.op \in {"evaluate", "_evaluate", "execute"} =>
        \A k \in DOMAIN built.lcls :
            /\ AllBoxed(built.lcls[k])
            /\ k \notin DOMAIN result.ext => AllBoxed(built.glbs[k])

\* C10 (as stated): once execute has succeeded, the following execute with
\* the same engine bindings and extensions passes the Overwrite Guard.
C10_NextExecutePasses ==
    [][(Succeeded(result) /\ Executed(result') /\ result'.ext = result.ext)
        => ~Shadowing(result')]_vars

\* C10 (amended): once execute has succeeded, the following execute with the
\* same engine bindings and extensions is refused by the Overwrite Guard
\* exactly when the script of the first left a name of the engine bindings
\* or of the extensions bound, and the error names those names.
C10_NextExecutePassesUnlessBound ==
    [][(Succeeded(result) /\ Executed(result') /\ result'.ext = result.ext) =>
        LET left == result.bound \cap Predefined(globals, result)
        IN /\ Shadowing(result') <=> left # {}
           /\ Shadowing(result') => result'.exc[1].names = left]_vars

\* The second of two executes has been refused for a name ("f", bound by the
\* extensions) that only the script of the first can have put into data
\* beside the "z" it bound.
C10_Witness ==
    /\ calls = 2
    /\ Shadowing(result)
    /\ result.exc[1].names = {"f"}
    /\ "f" \notin DOMAIN globals
    /\ data = [k \in {"f", "z"} |-> IF k = "f" THEN IntV(5) ELSE Dict(EmptyMap)]

\* the value the claimed precedence gives a name: the extensions' over the
\* task data's over the engine binding's
Precedence(g, d, ext, name) ==
    IF name \in DOMAIN ext THEN <<ext[name]>>
    ELSE IF name \in DOMAIN d THEN <<d[name]>>
    ELSE IF name \in DOMAIN g THEN <<g[name]>>
    ELSE <<>>

\* C9: the value an expression (_evaluate with external_methods) or a script
\* (execute) reads for a name is the extensions' over the task data's over
\* the engine binding's, at the top level and in nested scopes alike.  For a
\* script it is stated of a read that is the script's last statement, the
\* data after the call being the data the read saw.
C9_Precedence ==
    /\ (result.op = "_evaluate" /\ result.ok /\ result.expr.op = "read") =>
            <<result.value>> = Precedence(globals, data, result.ext, result.expr.name)
    /\ (Succeeded(result) /\ script # <<>> /\ script[Len(script)].op = "read") =>
            <<result.reads[Len(result.reads)]>> =
                Precedence(globals, data, result.ext, script[Len(script)].name)

\* a failure that is not a WorkflowTaskExecException was raised by the script
Failure(r) == r.op = "execute" /\ r.inner # <<>> /\ r.inner[1].cls # WTEName

\* C3: every failure of the script that is not a WorkflowTaskExecException
\* reaches the caller as a WorkflowTaskExecException carrying the failure
\* and the detail (the class name plus, if present, the first argument).
C3_FailureIsClassified ==
    Failure(result) =>
        LET err == result.inner[1]
            e == result.exc[1]
        IN /\ e.cls = WTEName
           /\ e.cause = <<err>>
           /\ e.detail = IF err.args = <<>> THEN <<err.cls>> ELSE <<err.cls, ":", Str(err)>>

\* the frames of a failure whose code is the script text itself
ScriptFrames(err) == {i \in 1..Len(err.frames) : err.frames[i].code = "script"}
LastOf(S) == CHOOSE i \in S : \A j \in S : j <= i

\* C4: the reported line number is the line of the last frame of the failure
\* whose source is the script text, and the reported source line is that line
\* of the script; without such a frame they are 0 and the empty line.
C4_LocatesScriptLine ==
    (Failure(result) /\ result.exc[1].cls = WTEName) =>
        LET err == result.inner[1]
            e == result.exc[1]
            S == ScriptFrames(err)
        IN IF S = {} THEN e.line = 0 /\ e.text = NoLine
           ELSE /\ e.line = err.frames[LastOf(S)].lineno
                /\ e.text = script[err.frames[LastOf(S)].lineno]

\* the code the call ran raised a WorkflowTaskExecException
RaisedClassified(r) == r.inner # <<>> /\ r.inner[1].cls = WTEName

\* C5 as stated: a WorkflowTaskExecException raised inside the code that
\* execute or evaluate runs reaches the caller unchanged.
C5_PassThrough ==
    (result.op \in {"execute", "evaluate"} /\ RaisedClassified(result))
        => result.exc = result.inner

\* C5: a WorkflowTaskExecException raised inside the script reaches the
\* caller of execute unchanged; one raised inside the expression reaches the
\* caller of evaluate as a new WorkflowTaskExecException whose detail is the
\* "Error evaluating expression" text followed by the message of the first.
C5_ExecutePassesEvaluateWraps ==
    /\ (result.op = "execute" /\ RaisedClassified(result)) => result.exc = result.inner
    /\ (result.op = "evaluate" /\ RaisedClassified(result)) =>
            /\ result.exc # result.inner
            /\ result.exc[1].cls = WTEName
            /\ result.exc[1].detail = <<"Error evaluating expression", Str(result.inner[1])>>

\* a script that bound z and then raised a WorkflowTaskExecException
C5_Witness ==
    /\ result.op = "execute" /\ RaisedClassified(result)
    /\ result.ran = 2 /\ Len(script) = 2 /\ "z" \in DOMAIN data

====
